---- MODULE Spec2Model ----
(***************************************************************************)
(* Huffman compressor with an egui front end (src/huffman.rs, src/main.rs).*)
(* The model follows one Application through file selections: the compress *)
(* path (from_file, compress, serialise) and the decompress path           *)
(* (deserialise, decompress, write).                                       *)
(***************************************************************************)
EXTENDS Integers, Sequences, FiniteSets, TLC

\* ---------------------------------------------------------------- bounds
\* Longest source text, in symbols.
MaxLen == 5

\* Code points the source texts are drawn from ("a", "b", "c"), all inside
\* the 256-slot table.
Symbols == {97, 98, 99}

\* type Frequencies = [usize; 256]
AlphabetSize == 256

Texts == UNION {[1..n -> Symbols] : n \in 0..MaxLen}

\* ------------------------------------------------------------ data model
\* Option<T>
None == <<>>
Some(x) == <<x>>

\* enum HuffmanTree { Leaf(char), Node((Box, Box)) }
Leaf(c) == <<"Leaf", c>>
Node(s, t) == <<"Node", s, t>>
IsLeaf(tree) == tree[1] = "Leaf"

\* enum Sense { Left, Right }
Left == "Left"
Right == "Right"

\* HashMap::new() and HashMap::insert
EmptyMap == [k \in {} |-> 0]
Insert(map, k, v) == [x \in (DOMAIN map) \cup {k} |-> IF x = k THEN v ELSE map[x]]

\* The 256-slot table is kept by its non-zero slots; every other slot reads 0.
\* [0; 256]
ZeroFrequencies == EmptyMap

\* frequencies[i]
Slot(freqs, i) == IF i \in DOMAIN freqs THEN freqs[i] ELSE 0

\* Application::status values (the file path inside the message is left out)
StatusDefault == "Compress or decompress a Huffman encoded file"
StatusCompressing == "Compressing"
StatusSaved == "Saved compressed file to"
StatusNoContent == "No content to compress"
StatusDecompressing == "Decompressing"
StatusDecompressed == "Decompressed to"

VARIABLES
  pc,               \* position of the front end: idle, inside a handler, or
                    \* "panicked in <function>" once an unwrap/expect has failed
  status,           \* Application.status
  size_comparison,  \* Application.size_comparison : Option<SizeComparison>
  file,             \* the file selected in the dialog: extension, and what reading it gave
  huff_file,        \* <selected source>.huff on disk : Option<container>
  original_file,    \* what decompress_with_filepath wrote to the original path
  text,             \* Huffman.text
  text_len,         \* from_file: text.len()
  frequencies,      \* from_file: frequencies
  leaves,           \* from_file: the BinaryHeap (its elements' trees)
  freq_tree,        \* Huffman.freq_tree.tree : Option<HuffmanTree>
  codewords,        \* compress: codewords
  flattened,        \* compress: result of text_to_flattened_senses
  senses,           \* compress: senses after senses_to_encoded_chars padded it
  container,        \* compress: the returned SerialisedHuffmanTree
  deserial,         \* decompress_with_filepath: the deserialised container
  dsenses,          \* decompress: senses
  current_path,     \* reconstruct_text: current_path when the loop ends
  decompressed      \* result of Huffman::decompress : Option<String>

vars == <<pc, status, size_comparison, file, huff_file, original_file, text,
          text_len, frequencies, leaves, freq_tree, codewords, flattened,
          senses, container, deserial, dsenses, current_path, decompressed>>

appVars == <<status, size_comparison>>
compressVars == <<text, text_len, frequencies, leaves, freq_tree, codewords,
                  flattened, senses, container>>
decompressVars == <<deserial, dsenses, current_path, decompressed, original_file>>

\* ------------------------------------------------------- pure functions
\* HuffmanTree::weight
RECURSIVE weight(_, _)
weight(tree, freqs) ==
  IF IsLeaf(tree) THEN Slot(freqs, tree[2])
  ELSE weight(tree[2], freqs) + weight(tree[3], freqs)

\* fill_codewords_with_acc with the right branch pushing Sense::Left as well
RECURSIVE fill_codewords_same_sense(_, _, _)
fill_codewords_same_sense(tree, cw, path) ==
  IF tree[1] = "Leaf" THEN Insert(cw, tree[2], path)
  ELSE LET left_path  == Append(path, Left)
           right_path == Append(path, Left)
       IN fill_codewords_same_sense(tree[3],
            fill_codewords_same_sense(tree[2], cw, left_path), right_path)

\* HuffmanTree::fill_codewords_with_acc
RECURSIVE fill_codewords_with_acc(_, _, _)
fill_codewords_with_acc(tree, cw, path) ==
  IF IsLeaf(tree) THEN Insert(cw, tree[2], path)
  ELSE LET left_path  == Append(path, Left)
           right_path == Append(path, Right)
       IN fill_codewords_with_acc(tree[3],
            fill_codewords_with_acc(tree[2], cw, left_path), right_path)

\* HuffmanTree::fill_codewords
fill_codewords(tree) == fill_codewords_with_acc(tree, EmptyMap, <<>>)

\* HuffmanTree::fill_codewords_rev_with_acc
RECURSIVE fill_codewords_rev_with_acc(_, _, _)
fill_codewords_rev_with_acc(tree, cwr, path) ==
  IF IsLeaf(tree) THEN Insert(cwr, path, tree[2])
  ELSE LET left_path  == Append(path, Left)
           right_path == Append(path, Right)
       IN fill_codewords_rev_with_acc(tree[3],
            fill_codewords_rev_with_acc(tree[2], cwr, left_path), right_path)

\* HuffmanTree::fill_codewords_rev
fill_codewords_rev(tree) == fill_codewords_rev_with_acc(tree, EmptyMap, <<>>)

\* Huffman::text_to_flattened_senses
RECURSIVE text_to_flattened_senses(_, _)
text_to_flattened_senses(t, cw) ==
  IF t = <<>> THEN <<>>
  ELSE cw[Head(t)] \o text_to_flattened_senses(Tail(t), cw)

\* Sense -> bit, as in senses_to_encoded_chars' match
SenseBit(sense) == IF sense = Left THEN 0 ELSE 1

\* 1 << offset
Pow2(offset) == IF offset = 0 THEN 1 ELSE IF offset = 1 THEN 2
  ELSE IF offset = 2 THEN 4 ELSE IF offset = 3 THEN 8
  ELSE IF offset = 4 THEN 16 ELSE IF offset = 5 THEN 32
  ELSE IF offset = 6 THEN 64 ELSE 128

\* senses_to_encoded_chars: padding_count
padding_count(paths) == 8 - (Len(paths) % 8)

\* senses_to_encoded_chars: paths after the padding loop
pad_paths(paths) == paths \o [k \in 1..padding_count(paths) |-> Left]

\* senses_to_encoded_chars: the inner for loop, one byte from paths[curr_path..]
\* (curr_path counts from 0 as in the source; sequences count from 1)
RECURSIVE pack_byte(_, _, _, _)
pack_byte(paths, curr_path, offset, n) ==
  IF offset < 0 THEN n
  ELSE pack_byte(paths, curr_path + 1, offset - 1,
                 (n + SenseBit(paths[curr_path + 1]) * Pow2(offset)) % 256)

\* senses_to_encoded_chars: the while loop
RECURSIVE pack_bytes(_, _)
pack_bytes(paths, curr_path) ==
  IF curr_path < Len(paths)
  THEN <<pack_byte(paths, curr_path, 7, 0)>> \o pack_bytes(paths, curr_path + 8)
  ELSE <<>>

\* Huffman::senses_to_encoded_chars: (encoded_chars, curr_path - padding_count),
\* and the padded vector it leaves in its argument
senses_to_encoded_chars(paths) ==
  LET padded        == pad_paths(paths)
      encoded_chars == pack_bytes(padded, 0)
      curr_path     == 8 * Len(encoded_chars)
  IN [encoded_chars |-> encoded_chars,
      senses_count  |-> curr_path - padding_count(paths),
      paths         |-> padded]

\* Huffman::compress
compress(tree, t) ==
  LET cw == fill_codewords(tree)
      fl == text_to_flattened_senses(t, cw)
      r  == senses_to_encoded_chars(fl)
  IN [tree |-> tree, senses_count |-> r.senses_count,
      encoded_chars |-> r.encoded_chars]

\* the inner loop of encoded_chars_to_senses breaking one bit later still
RECURSIVE unpack_byte_late_break(_, _, _, _, _)
unpack_byte_late_break(n, offset, acc, i, senses_count) ==
  IF offset < 0 THEN [senses |-> acc, i |-> i]
  ELSE IF i > senses_count + 1 THEN [senses |-> acc, i |-> i]
  ELSE LET sense == IF ((n \div Pow2(offset)) % 2) = 1 THEN Right ELSE Left
       IN unpack_byte_late_break(n, offset - 1, Append(acc, sense), i + 1, senses_count)

\* encoded_chars_to_senses: the inner for loop over one byte n
RECURSIVE unpack_byte(_, _, _, _, _)
unpack_byte(n, offset, acc, i, senses_count) ==
  IF offset < 0 THEN [senses |-> acc, i |-> i]
  ELSE IF i > senses_count THEN [senses |-> acc, i |-> i]
  ELSE LET sense == IF ((n \div Pow2(offset)) % 2) = 1 THEN Right ELSE Left
       IN unpack_byte(n, offset - 1, Append(acc, sense), i + 1, senses_count)

\* encoded_chars_to_senses: the outer for loop
RECURSIVE unpack_bytes(_, _, _, _, _)
unpack_bytes(encoded_chars, k, acc, i, senses_count) ==
  IF k > Len(encoded_chars) THEN acc
  ELSE LET r == unpack_byte(encoded_chars[k], 7, acc, i, senses_count)
       IN unpack_bytes(encoded_chars, k + 1, r.senses, r.i, senses_count)

\* SerialisedHuffmanTree::encoded_chars_to_senses
encoded_chars_to_senses(c) ==
  unpack_bytes(c.encoded_chars, 1, <<>>, 0, c.senses_count)

\* reconstruct_text: the for loop over senses
RECURSIVE reconstruct_loop(_, _, _, _, _)
reconstruct_loop(codewords_rev, ss, k, reconstructed_text, path) ==
  IF k > Len(ss)
  THEN [reconstructed_text |-> reconstructed_text, current_path |-> path]
  ELSE LET p == Append(path, ss[k])
       IN IF p \in DOMAIN codewords_rev
          THEN reconstruct_loop(codewords_rev, ss, k + 1,
                                Append(reconstructed_text, codewords_rev[p]), <<>>)
          ELSE reconstruct_loop(codewords_rev, ss, k + 1, reconstructed_text, p)

\* Huffman::reconstruct_text (with the final current_path, a local of the source)
reconstruct_text(tree, ss) ==
  reconstruct_loop(fill_codewords_rev(tree), ss, 1, <<>>, <<>>)

\* Huffman::decompress: always Some(reconstructed_text)
decompress(c) ==
  Some(reconstruct_text(c.tree, encoded_chars_to_senses(c)).reconstructed_text)

\* str::len of one char: UTF-8 bytes of a code point below 2048
Utf8Len(c) == IF c < 128 THEN 1 ELSE 2

\* String::len
RECURSIVE StrLen(_)
StrLen(t) == IF t = <<>> THEN 0 ELSE Utf8Len(Head(t)) + StrLen(Tail(t))

\* postcard varint(usize) length
RECURSIVE VarintLen(_)
VarintLen(n) == IF n < 128 THEN 1 ELSE 1 + VarintLen(n \div 128)

\* postcard size of a HuffmanTree: variant tag, then a char (as a length-prefixed
\* UTF-8 str) or the two children
RECURSIVE TreeSize(_)
TreeSize(tree) ==
  IF IsLeaf(tree) THEN 1 + VarintLen(Utf8Len(tree[2])) + Utf8Len(tree[2])
  ELSE 1 + TreeSize(tree[2]) + TreeSize(tree[3])

\* serialise: compressed_size = postcard::to_allocvec(&self).len()
compressed_size(c) ==
  TreeSize(c.tree) + VarintLen(c.senses_count)
    + VarintLen(Len(c.encoded_chars)) + Len(c.encoded_chars)

\* from_file: the counting loop, frequencies[c as usize] += 1 per char
RECURSIVE count_loop(_, _)
count_loop(t, freqs) ==
  IF t = <<>> THEN freqs
  ELSE count_loop(Tail(t), Insert(freqs, Head(t), Slot(freqs, Head(t)) + 1))

count_frequencies(t) == count_loop(t, ZeroFrequencies)

\* the seeding loop of from_file testing *freq > 1
seed_leaves_above_one(freqs) ==
  {Leaf(i) : i \in {j \in 0..(AlphabetSize - 1) : Slot(freqs, j) > 1}}

\* from_file: one leaf pushed per slot with freq > 0
seed_leaves(freqs) ==
  {Leaf(i) : i \in {j \in 0..(AlphabetSize - 1) : Slot(freqs, j) > 0}}

\* BinaryHeap::pop with the comparison of HuffmanFreqTree not reversed (a max-heap)
heap_top_max(heap, freqs) ==
  {x \in heap : \A y \in heap : weight(x, freqs) >= weight(y, freqs)}

\* BinaryHeap::pop under the reversed Ord of HuffmanFreqTree: an element of
\* least weight; which one among equal weights is the heap's business
heap_top(heap, freqs) ==
  {x \in heap : \A y \in heap : weight(x, freqs) <= weight(y, freqs)}

\* ------------------------------------------------------------ the program
\* impl Default for Application; nothing selected, nothing written
NoFile == [ext |-> "none", readable |-> FALSE, valid |-> FALSE, content |-> None]

Init ==
  /\ pc = "idle"
  /\ status = StatusDefault
  /\ size_comparison = None
  /\ file = NoFile
  /\ huff_file = None
  /\ original_file = None
  /\ text = <<>>
  /\ text_len = 0
  /\ frequencies = ZeroFrequencies
  /\ leaves = {}
  /\ freq_tree = None
  /\ codewords = EmptyMap
  /\ flattened = <<>>
  /\ senses = <<>>
  /\ container = None
  /\ deserial = None
  /\ dsenses = <<>>
  /\ current_path = <<>>
  /\ decompressed = None

\* A call starts with fresh locals
FreshCompressLocals ==
  /\ text' = <<>>
  /\ text_len' = 0
  /\ frequencies' = ZeroFrequencies
  /\ leaves' = {}
  /\ freq_tree' = None
  /\ codewords' = EmptyMap
  /\ flattened' = <<>>
  /\ senses' = <<>>
  /\ container' = None

FreshDecompressLocals ==
  /\ deserial' = None
  /\ dsenses' = <<>>
  /\ current_path' = <<>>
  /\ decompressed' = None
  /\ original_file' = None

\* update -> handle_filepath: extension().unwrap() on a path without extension
HandleNoExtension ==
  /\ pc = "idle"
  /\ file' = NoFile
  /\ pc' = "panicked in handle_filepath"
  /\ UNCHANGED <<appVars, huff_file, compressVars, decompressVars>>

\* update -> handle_filepath -> compress_with_filepath, up to the call of
\* from_file: the user picked a source file (one with no .huff next to it yet)
SelectSource ==
  /\ pc = "idle"
  /\ file' = [NoFile EXCEPT !.ext = "txt"]
  /\ status' = StatusCompressing
  /\ pc' = "from_file"
  /\ huff_file' = None
  /\ FreshCompressLocals
  /\ FreshDecompressLocals
  /\ UNCHANGED size_comparison

\* from_file: read_to_string(filepath).unwrap() fails
FromFileUnreadable ==
  /\ pc = "from_file"
  /\ pc' = "panicked in from_file"
  /\ UNCHANGED <<appVars, file, huff_file, compressVars, decompressVars>>

\* from_file with the length test after the counting loop and the heap seeding
FromFileEmptyLateCheck ==
  /\ pc = "from_file"
  /\ file' = [file EXCEPT !.readable = TRUE, !.content = <<>>]
  /\ frequencies' = count_frequencies(<<>>)
  /\ leaves' = seed_leaves(count_frequencies(<<>>))
  /\ pc' = "merge"
  /\ UNCHANGED <<appVars, huff_file, text, text_len, freq_tree, codewords,
                 flattened, senses, container, decompressVars>>

\* from_file on an empty file returns Err; the Err arm of compress_with_filepath
\* stores the message and the handler returns
FromFileEmpty ==
  /\ pc = "from_file"
  /\ file' = [file EXCEPT !.readable = TRUE, !.content = <<>>]
  /\ status' = StatusNoContent
  /\ pc' = "idle"
  /\ UNCHANGED <<size_comparison, huff_file, compressVars, decompressVars>>

\* from_file on a non-empty file, up to the seeded heap
FromFileCount ==
  /\ pc = "from_file"
  /\ \E t \in Texts \ {<<>>} :
       /\ file' = [file EXCEPT !.readable = TRUE, !.content = t]
       /\ text' = t
       /\ text_len' = StrLen(t)
       /\ frequencies' = count_frequencies(t)
       /\ leaves' = seed_leaves(count_frequencies(t))
  /\ pc' = "merge"
  /\ UNCHANGED <<appVars, huff_file, freq_tree, codewords, flattened, senses,
                 container, decompressVars>>

\* from_file: one round of the while loop
MergeStep ==
  /\ pc = "merge"
  /\ Cardinality(leaves) > 1
  /\ \E a \in heap_top(leaves, frequencies) :
       \E b \in heap_top(leaves \ {a}, frequencies) :
         leaves' = (leaves \ {a, b}) \cup {Node(a, b)}
  /\ UNCHANGED <<pc, appVars, file, huff_file, text, text_len, frequencies,
                 freq_tree, codewords, flattened, senses, container, decompressVars>>

\* from_file: the loop has ended; leaves.pop().unwrap() becomes the tree
FromFileReturn ==
  /\ pc = "merge"
  /\ ~(Cardinality(leaves) > 1)
  /\ IF leaves = {}
     THEN /\ pc' = "panicked in from_file"
          /\ UNCHANGED <<leaves, freq_tree>>
     ELSE /\ \E x \in leaves : freq_tree' = Some(x)
          /\ leaves' = {}
          /\ pc' = "built"
  /\ UNCHANGED <<appVars, file, huff_file, text, text_len, frequencies,
                 codewords, flattened, senses, container, decompressVars>>

\* compress_with_filepath: huffman.compress()
Compress ==
  /\ pc = "built"
  /\ LET tree == freq_tree[1]
         cw   == fill_codewords(tree)
         fl   == text_to_flattened_senses(text, cw)
     IN /\ codewords' = cw
        /\ flattened' = fl
        /\ senses' = senses_to_encoded_chars(fl).paths
        /\ container' = Some(compress(tree, text))
  /\ pc' = "compressed"
  /\ UNCHANGED <<appVars, file, huff_file, text, text_len, frequencies, leaves,
                 freq_tree, decompressVars>>

\* compress_with_filepath: serialise succeeds, status and size_comparison are set
SerialiseOk ==
  /\ pc = "compressed"
  /\ huff_file' = container
  /\ status' = StatusSaved
  /\ size_comparison' = Some([original   |-> text_len,
                              compressed |-> compressed_size(container[1])])
  /\ pc' = "idle"
  /\ UNCHANGED <<file, compressVars, decompressVars>>

\* serialise: fs::write(..).expect(..) on a destination that cannot be written
SerialiseUnwritable ==
  /\ pc = "compressed"
  /\ pc' = "panicked in serialise"
  /\ UNCHANGED <<appVars, file, huff_file, compressVars, decompressVars>>

\* update -> handle_filepath -> decompress_with_filepath, up to the call of
\* deserialise: the user picked a .huff file
SelectHuff ==
  /\ pc = "idle"
  /\ file' = [NoFile EXCEPT !.ext = "huff"]
  /\ status' = StatusDecompressing
  /\ pc' = "deserialise"
  /\ FreshDecompressLocals
  /\ UNCHANGED <<size_comparison, huff_file, compressVars>>

\* deserialise: fs::read(..).unwrap() fails
DeserialiseUnreadable ==
  /\ pc = "deserialise"
  /\ pc' = "panicked in deserialise"
  /\ UNCHANGED <<appVars, file, huff_file, compressVars, decompressVars>>

\* deserialise: postcard::from_bytes(..).expect(..) on a blob that is no container
DeserialiseUndecodable ==
  /\ pc = "deserialise"
  /\ file' = [file EXCEPT !.readable = TRUE]
  /\ pc' = "panicked in deserialise"
  /\ UNCHANGED <<appVars, huff_file, compressVars, decompressVars>>

\* deserialise of the file serialise wrote
DeserialiseOk ==
  /\ pc = "deserialise"
  /\ huff_file # None
  /\ file' = [file EXCEPT !.readable = TRUE, !.valid = TRUE, !.content = huff_file]
  /\ deserial' = huff_file
  /\ pc' = "deserialised"
  /\ UNCHANGED <<appVars, huff_file, compressVars, dsenses, current_path,
                 decompressed, original_file>>

\* decompress_with_filepath: Huffman::decompress, then the text is written
DecompressWrite ==
  /\ pc = "deserialised"
  /\ LET ss == encoded_chars_to_senses(deserial[1])
         r  == reconstruct_text(deserial[1].tree, ss)
     IN /\ dsenses' = ss
        /\ current_path' = r.current_path
        /\ decompressed' = decompress(deserial[1])
        /\ original_file' = Some(decompress(deserial[1])[1])
  /\ status' = StatusDecompressed
  /\ pc' = "idle"
  /\ UNCHANGED <<size_comparison, file, huff_file, deserial, compressVars>>

\* decompress_with_filepath: File::create(..).unwrap() or write(..).unwrap() fails
DecompressUnwritable ==
  /\ pc = "deserialised"
  /\ LET ss == encoded_chars_to_senses(deserial[1])
         r  == reconstruct_text(deserial[1].tree, ss)
     IN /\ dsenses' = ss
        /\ current_path' = r.current_path
        /\ decompressed' = decompress(deserial[1])
  /\ pc' = "panicked in decompress_with_filepath"
  /\ UNCHANGED <<appVars, file, huff_file, deserial, original_file, compressVars>>

Next ==
  \/ HandleNoExtension
  \/ SelectSource
  \/ FromFileUnreadable
  \/ FromFileEmpty
  \/ FromFileCount
  \/ MergeStep
  \/ FromFileReturn
  \/ Compress
  \/ SerialiseOk
  \/ SerialiseUnwritable
  \/ SelectHuff
  \/ DeserialiseUnreadable
  \/ DeserialiseUndecodable
  \/ DeserialiseOk
  \/ DecompressWrite
  \/ DecompressUnwritable

Spec == Init /\ [][Next]_vars

\* ---------------------------------------------------------------- claims
IsPrefix(p, q) == Len(p) <= Len(q) /\ SubSeq(q, 1, Len(p)) = p

SymbolsOf(t) == {t[k] : k \in 1..Len(t)}

\* the leaves of a tree, left to right
RECURSIVE LeafSeq(_)
LeafSeq(tree) ==
  IF tree[1] = "Leaf" THEN <<tree[2]>> ELSE LeafSeq(tree[2]) \o LeafSeq(tree[3])

Occurrences(c, seq) == Cardinality({k \in 1..Len(seq) : seq[k] = c})

\* C1: Round trip. Whenever decompress has run on the container compress made
\* from a text, the text it returns is that text.
C1_RoundTrip ==
  decompressed # None => decompressed[1] = text

\* C2: Empty input rejection. The step of compress_with_filepath that reads an
\* empty file ends the handler with the error message, counts nothing, builds no
\* tree and no container, writes no file and leaves size_comparison as it was.
C2_EmptyInputRejected ==
  [][(pc = "from_file" /\ file'.readable /\ file'.content = <<>>)
       => /\ pc' = "idle"
          /\ status' = StatusNoContent
          /\ size_comparison' = size_comparison
          /\ huff_file' = huff_file
          /\ frequencies' = ZeroFrequencies
          /\ leaves' = {}
          /\ freq_tree' = None
          /\ container' = None]_vars

\* An empty file was rejected while a size comparison of an earlier
\* compression was on display.
C2_Witness ==
  /\ pc = "idle"
  /\ file.ext = "txt" /\ file.readable /\ file.content = <<>>
  /\ status = StatusNoContent
  /\ size_comparison # None
  /\ huff_file = None

\* C3: Malformed stream detection. If reconstruct_text ends with a non-empty
\* current path, decompress returns no text.
C3_MalformedStreamReported ==
  current_path # <<>> => decompressed = None

\* C4: Prefix-free codewords. For the tree from_file built, fill_codewords gives
\* every leaf symbol a codeword, and no codeword is a prefix of (or equal to)
\* the codeword of another symbol.
C4_PrefixFree ==
  freq_tree # None =>
    LET cw == fill_codewords(freq_tree[1])
    IN /\ DOMAIN cw = SymbolsOf(LeafSeq(freq_tree[1]))
       /\ DOMAIN cw = SymbolsOf(text)
       /\ \A a, b \in DOMAIN cw : a # b => ~IsPrefix(cw[a], cw[b])

\* A tree with three leaves was built.
C4_Witness ==
  /\ freq_tree # None
  /\ Cardinality(DOMAIN fill_codewords(freq_tree[1])) = 3

\* C5 as stated: frequency(a) >= frequency(b) implies length(a) <= length(b).
C5_MonotonicLength ==
  freq_tree # None =>
    LET cw == fill_codewords(freq_tree[1])
    IN \A a, b \in DOMAIN cw :
         Slot(frequencies, a) >= Slot(frequencies, b) => Len(cw[a]) <= Len(cw[b])

\* C5 amended: a strictly more frequent symbol never has the longer codeword,
\* whichever of the equal-weight elements the heap pops.
C5_StrictlyMoreFrequentNotLonger ==
  freq_tree # None =>
    LET cw == fill_codewords(freq_tree[1])
    IN \A a, b \in DOMAIN cw :
         Slot(frequencies, a) > Slot(frequencies, b) => Len(cw[a]) <= Len(cw[b])

\* A tree in which a more frequent symbol has a strictly shorter codeword.
C5_Witness ==
  /\ freq_tree # None
  /\ LET cw == fill_codewords(freq_tree[1])
     IN \E a, b \in DOMAIN cw :
          Slot(frequencies, a) > Slot(frequencies, b) /\ Len(cw[a]) < Len(cw[b])

\* C6: Padding bound. After compress, the padded bit vector is the real bits
\* followed by Left bits only, its length is a multiple of 8, fewer than 8 bits
\* were added, and the payload has exactly one byte per 8 padded bits.
C6_PaddingBound ==
  container # None =>
    LET added == Len(senses) - Len(flattened)
    IN /\ SubSeq(senses, 1, Len(flattened)) = flattened
       /\ \A k \in (Len(flattened) + 1)..Len(senses) : senses[k] = Left
       /\ Len(senses) % 8 = 0
       /\ added < 8
       /\ 8 * Len(container[1].encoded_chars) = Len(senses)

\* C7: Weight conservation. When the merge loop has ended, the queue holds
\* exactly one tree; each symbol of non-zero frequency is exactly one of its
\* leaves, it has no other leaves, and its weight is the number of symbols of
\* the text.
C7_WeightConservation ==
  (pc = "merge" /\ ~(Cardinality(leaves) > 1)) =>
    /\ Cardinality(leaves) = 1
    /\ \A x \in leaves :
         /\ \A c \in 0..(AlphabetSize - 1) :
              Occurrences(c, LeafSeq(x)) = (IF Slot(frequencies, c) > 0 THEN 1 ELSE 0)
         /\ weight(x, frequencies) = Len(text)

\* The loop ended after two merges, on a text of three distinct symbols.
C7_Witness ==
  /\ pc = "merge"
  /\ Cardinality(leaves) = 1
  /\ \E x \in leaves : Len(LeafSeq(x)) = 3
  /\ Len(text) > 3

\* C8: Recoverable failures. No call of from_file, serialise or deserialise
\* aborts the program (Huffman::decompress has no failing path at all).
C8_Recoverable ==
  pc \notin {"panicked in from_file", "panicked in serialise",
             "panicked in deserialise"}

\* C9: Decoder truncation. The bits decompress hands to the decode loop are
\* exactly senses_count many and are the encoder's unpadded bit sequence.
C9_DecoderTruncation ==
  decompressed # None =>
    /\ Len(dsenses) = deserial[1].senses_count
    /\ dsenses = flattened

\* C10: for a text of at least two distinct symbols, the decompressed text
\* starts with the text, is at most one symbol longer, and is the text itself
\* when the left child of the root is not a leaf.
C10_AtMostOneExtraSymbol ==
  (decompressed # None /\ Cardinality(SymbolsOf(text)) >= 2) =>
    /\ IsPrefix(text, decompressed[1])
    /\ Len(decompressed[1]) <= Len(text) + 1
    /\ (deserial[1].tree[2][1] # "Leaf" => decompressed[1] = text)

\* A text of several symbols came back exactly, through a tree whose root has
\* an inner node as its left child.
C10_Witness ==
  /\ decompressed # None
  /\ Cardinality(SymbolsOf(text)) >= 2
  /\ deserial[1].tree[2][1] # "Leaf"
  /\ decompressed[1] = text

====
